---- MODULE Spec2Model ----
(***************************************************************************)
(* Model of nixtat.py: disk usage of a nix store grouped by package name.  *)
(* Strings are sequences of one-character strings, so that the regular     *)
(* expressions, str.split, int() and the sort on names are computed on     *)
(* characters as the Python code computes them.                            *)
(***************************************************************************)
EXTENDS Integers, Sequences, FiniteSets, TLC

\* ------------------------------------------------------------------------
\* Characters and strings
\* ------------------------------------------------------------------------

Digits == {"0", "1", "2", "3", "4", "5", "6", "7", "8", "9"}

Lower == {"a", "b", "c", "d", "e", "f", "g", "h", "i", "j", "k", "l", "m",
          "n", "o", "p", "q", "r", "s", "t", "u", "v", "w", "x", "y", "z"}

TAB == "\t"

NL == "\n"

\* [a-z0-9] of the hash pattern
HashChar(c) == c \in Lower \cup Digits

\* '.' of a Python regular expression (no DOTALL): any character but newline
Dot(c) == c /= NL

\* the number of characters [a-z0-9] the hash pattern asks for
HashLen == 32

Min(a, b) == IF a < b THEN a ELSE b

Max(a, b) == IF a > b THEN a ELSE b

Rep(c, k) == [j \in 1..k |-> c]

Drop(s, k) == SubSeq(s, k + 1, Len(s))

Take(s, k) == SubSeq(s, 1, k)

\* the least and the greatest element of a non-empty set of integers
Least(S) == CHOOSE k \in S : \A j \in S : k <= j

Greatest(S) == CHOOSE k \in S : \A j \in S : j <= k

\* str.rfind('/') + 1: the index after the last '/', 0 when there is none
RFindSlash(p) ==
    LET S == {k \in 1..Len(p) : p[k] = "/"}
    IN  IF S = {} THEN 0 ELSE Greatest(S)

\* os.path.basename (posixpath): what follows the last '/'
basename(p) == Drop(p, RFindSlash(p))

\* '(.*)$' applied to the rest of the subject: the greedy group takes every
\* character up to the first newline; '$' then needs the end of the subject,
\* or a single newline that ends it. Result <<matched, group>>.
DotRun(s) ==
    LET S == {k \in 1..Len(s) : ~Dot(s[k])}
    IN  IF S = {} THEN Len(s) ELSE Least(S) - 1

DotStarEnd(s) ==
    LET k == DotRun(s)
    IN  IF k = Len(s) \/ (k = Len(s) - 1 /\ s[Len(s)] = NL)
        THEN <<TRUE, Take(s, k)>>
        ELSE <<FALSE, <<>>>>

\* match_hash with the character class forgotten: any 32 characters and a dash
match_hash_any(base_name) ==
    IF Len(base_name) >= HashLen + 1 /\ base_name[HashLen + 1] = "-"
    THEN DotStarEnd(Drop(base_name, HashLen + 1))
    ELSE <<FALSE, <<>>>>

\* re.match(r'^[a-z0-9]{32}-(.*)$', base_name): <<matched, group(1)>>
match_hash(base_name) ==
    IF /\ Len(base_name) >= HashLen + 1
       /\ \A j \in 1..HashLen : HashChar(base_name[j])
       /\ base_name[HashLen + 1] = "-"
    THEN DotStarEnd(Drop(base_name, HashLen + 1))
    ELSE <<FALSE, <<>>>>

\* '(?:-[0-9].*)?$' tried at offset k of s: the optional group is greedy, so it
\* is tried first; without it '$' must match at k.
VersionTailAt(s, k) ==
    \/ /\ k + 2 <= Len(s)
       /\ s[k + 1] = "-"
       /\ s[k + 2] \in Digits
       /\ DotStarEnd(Drop(s, k + 2))[1]
    \/ k = Len(s)
    \/ (k = Len(s) - 1 /\ s[Len(s)] = NL)

\* match_version with a greedy group(1), as the comment on line 61 describes
\* it: the name is cut at the last dash that a digit follows
match_version_last(name_with_version) ==
    LET s == name_with_version
        K == {k \in 0..DotRun(s) : VersionTailAt(s, k)}
    IN  IF K = {} THEN <<FALSE, <<>>>>
        ELSE IF K = {Len(s)} THEN <<TRUE, s>>
        ELSE <<TRUE, Take(s, Greatest(K \ {Len(s)}))>>

\* re.match(r"^(.*?)(?:-[0-9].*)?$", s): the lazy group(1) grows one character
\* at a time from the empty string, over characters '.' accepts, and stops at
\* the first length at which the rest matches. <<matched, group(1)>>
match_version(name_with_version) ==
    LET s == name_with_version
        K == {k \in 0..DotRun(s) : VersionTailAt(s, k)}
    IN  IF K = {} THEN <<FALSE, <<>>>> ELSE <<TRUE, Take(s, Least(K))>>

parse_package_name(path, keep_version) ==
    LET base_name == basename(path)
        mh == match_hash(base_name)
        name_with_version == mh[2]
        mv == match_version(name_with_version)
    IN  IF ~mh[1] THEN base_name
        ELSE IF keep_version THEN name_with_version
        ELSE IF mv[1] THEN mv[2]
        ELSE name_with_version

\* ------------------------------------------------------------------------
\* Conversions used by the batch loop
\* ------------------------------------------------------------------------

DigitSeq == <<"0", "1", "2", "3", "4", "5", "6", "7", "8", "9">>

DigitChar(d) == DigitSeq[d + 1]

DigitVal(c) == CHOOSE d \in 0..9 : DigitSeq[d + 1] = c

\* str(k) for k >= 0, as the sizing facility prints a size
RECURSIVE NatToStr(_)
NatToStr(k) == IF k < 10 THEN <<DigitChar(k)>>
               ELSE NatToStr(k \div 10) \o <<DigitChar(k % 10)>>

\* k in decimal, zero-padded on the left to w characters
RECURSIVE Padded(_, _)
Padded(k, w) == IF w = 0 THEN <<>>
                ELSE Padded(k \div 10, w - 1) \o <<DigitChar(k % 10)>>

\* line.split('\t'): the fields between the tabs, one more than there are tabs
SplitTab(line) ==
    LET T == {k \in 1..Len(line) : line[k] = TAB}
        NthTab(j) == CHOOSE t \in T : Cardinality({u \in T : u < t}) = j - 1
        nf == Cardinality(T) + 1
    IN  [j \in 1..nf |->
            SubSeq(line,
                   IF j = 1 THEN 1 ELSE NthTab(j - 1) + 1,
                   IF j = nf THEN Len(line) ELSE NthTab(j) - 1)]

\* str.strip() restricted to the blank a line can still hold after splitlines()
RECURSIVE LStrip(_)
LStrip(s) == IF s /= <<>> /\ Head(s) = " " THEN LStrip(Tail(s)) ELSE s

RECURSIVE RStrip(_)
RStrip(s) == IF s /= <<>> /\ s[Len(s)] = " " THEN RStrip(Take(s, Len(s) - 1)) ELSE s

\* the digits of an int() literal: digits, single underscores between digits
DigitsOK(s) ==
    /\ s /= <<>>
    /\ \A j \in 1..Len(s) : s[j] \in Digits \cup {"_"}
    /\ s[1] \in Digits
    /\ s[Len(s)] \in Digits
    /\ \A j \in 1..(Len(s) - 1) : ~(s[j] = "_" /\ s[j + 1] = "_")

RECURSIVE DigitsValue(_, _)
DigitsValue(s, acc) ==
    IF s = <<>> THEN acc
    ELSE IF Head(s) = "_" THEN DigitsValue(Tail(s), acc)
    ELSE DigitsValue(Tail(s), acc * 10 + DigitVal(Head(s)))

\* int(text): <<TRUE, value>>, or <<FALSE, 0>> where Python raises ValueError.
\* Blanks around the literal are stripped and one sign is accepted.
ParseInt(text) ==
    LET t == RStrip(LStrip(text))
        signed == t /= <<>> /\ Head(t) \in {"+", "-"}
        body == IF signed THEN Tail(t) ELSE t
    IN  IF ~DigitsOK(body) THEN <<FALSE, 0>>
        ELSE IF signed /\ Head(t) = "-" THEN <<TRUE, 0 - DigitsValue(body, 0)>>
        ELSE <<TRUE, DigitsValue(body, 0)>>

\* code point order of the characters that occur in names
LowerSeq == <<"a", "b", "c", "d", "e", "f", "g", "h", "i", "j", "k", "l", "m",
              "n", "o", "p", "q", "r", "s", "t", "u", "v", "w", "x", "y", "z">>

Ord(c) ==
    IF c \in Digits THEN 48 + DigitVal(c)
    ELSE IF c \in Lower THEN 96 + (CHOOSE j \in 1..26 : LowerSeq[j] = c)
    ELSE CASE c = TAB -> 9
           [] c = NL -> 10
           [] c = " " -> 32
           [] c = "'" -> 39
           [] c = "+" -> 43
           [] c = "-" -> 45
           [] c = "." -> 46
           [] c = "/" -> 47
           [] c = ":" -> 58
           [] c = "?" -> 63
           [] c = "A" -> 65
           [] c = "_" -> 95

\* a < b for Python str: the first differing character decides, a proper
\* prefix is smaller
StrLess(a, b) ==
    LET D == {k \in 1..Min(Len(a), Len(b)) : a[k] /= b[k]}
    IN  IF D = {} THEN Len(a) < Len(b)
        ELSE Ord(a[Least(D)]) < Ord(b[Least(D)])


\* ------------------------------------------------------------------------
\* The store and the sizing facility (du): the environment of one run
\* ------------------------------------------------------------------------

\* bounds of the model
MaxSmall == 2

MaxN == 201

\* the default of --path
StorePath == <<"/", "n", "i", "x", "/", "s", "t", "o", "r", "e">>

\* The store holds entries 1..n. Entry e is a directory whose name is unique
\* in the store: a 32-character hash that ends in the decimal of e, a dash and
\* one of three package names; every hundredth entry has no hash prefix.
HashDigits == 6

Stray(e) == e % 100 = 0

HashOf(e) == Rep(IF e % 2 = 1 THEN "a" ELSE "b", HashLen - HashDigits)
             \o Padded(e, HashDigits)

NameOf(e) ==
    CASE Stray(e) -> <<"t", "m", "p", "-">> \o NatToStr(e)
      [] ~Stray(e) /\ e % 3 = 1 -> <<"g", "o", "-", "1", ".", "2", "5", ".", "4">>
      [] ~Stray(e) /\ e % 3 = 2 -> <<"g", "o", "-", "1", ".", "2", "0", ".", "0">>
      [] ~Stray(e) /\ e % 3 = 0 ->
            <<"p", "y", "t", "h", "o", "n", "3", "-", "3", ".", "9">>

EntryName(e) ==
    IF Stray(e) THEN NameOf(e) ELSE HashOf(e) \o <<"-">> \o NameOf(e)

\* os.path.join(store_path, name)
EntryPath(e) == StorePath \o <<"/">> \o EntryName(e)

\* the size in KiB du measures for entry e
EntrySize(e) ==
    CASE Stray(e) -> 7
      [] ~Stray(e) /\ e % 3 = 1 -> 500
      [] ~Stray(e) /\ e % 3 = 2 -> 300
      [] ~Stray(e) /\ e % 3 = 0 -> 0

\* What du does with one path of its argument list.
\*   ok       the line  <size> TAB <path>
\*   negative the line  -<size> TAB <path>
\*   nonnum   the line  ? TAB <path>
\*   notab    the line  <size> <path>           (one field)
\*   three    the line  <size> TAB <path> TAB x (three fields)
\*   none     nothing on either channel
\*   diag     no line; a diagnostic that names the path
\*   diagsame no line; a diagnostic whose text is the same for every path
Kinds == {"ok", "negative", "nonnum", "notab", "three", "none", "diag", "diagsame"}

\* du behaves per entry: entries e with e % every = 1 % every get `hit`, the
\* others get `rest`.
Outcome(d, e) == IF e % d.every = 1 % d.every THEN d.hit ELSE d.rest

HasLine(kind) == kind \in {"ok", "negative", "nonnum", "notab", "three"}

HasDiag(kind) == kind \in {"diag", "diagsame"}

StdoutLineOf(kind, e) ==
    CASE kind = "ok" -> NatToStr(EntrySize(e)) \o <<TAB>> \o EntryPath(e)
      [] kind = "negative" ->
            <<"-">> \o NatToStr(EntrySize(e)) \o <<TAB>> \o EntryPath(e)
      [] kind = "nonnum" -> <<"?", TAB>> \o EntryPath(e)
      [] kind = "notab" -> NatToStr(EntrySize(e)) \o <<" ">> \o EntryPath(e)
      [] kind = "three" ->
            NatToStr(EntrySize(e)) \o <<TAB>> \o EntryPath(e) \o <<TAB, "x">>

StderrLineOf(kind, e) ==
    IF kind = "diag"
    THEN <<"d", "u", ":", " ">> \o EntryName(e)
    ELSE <<"d", "u", ":", " ", "d", "e", "n", "i", "e", "d">>


\* ------------------------------------------------------------------------
\* State
\* ------------------------------------------------------------------------

VARIABLES
    args,                \* the parsed command line (line 20), fixed for the run
    store,               \* the file system: does the root exist, its entries
    du,                  \* how the sizing facility behaves
    pc,                  \* the position of main()
    len_all_paths,       \* len(all_paths)
    CHUNK_SIZE,
    i,                   \* the loop variable of the batch loop (0-based offset)
    chunk,               \* the slice all_paths[i:i + CHUNK_SIZE], as positions
    linePos,             \* position of the path whose stdout line was read last
    stats,               \* dict in insertion order: <<[name, size, count], ...>>
    encountered_errors,  \* set of diagnostic lines
    progress,            \* "none" (progress is None), "started" or "stopped"
    completed,           \* what progress.update has advanced the task to
    invocations,         \* the argument lists du was run with, as slices
    echoed,              \* number of diagnostic lines printed as they occurred
    summary,             \* the lines of the error summary, in print order
    sorted_stats,
    processed_stats,
    limit,               \* the display limit of the interactive report
    table,               \* the rows added to the rich table
    printed,             \* the report rows written to stdout
    rowPos,              \* rows of the plain report printed so far
    exitCode,            \* -1 while running
    exitMsg,             \* why the process ended
    call                 \* one call of parse_package_name: arguments and result

vars == <<args, store, du, pc, len_all_paths, CHUNK_SIZE, i, chunk, linePos,
          stats, encountered_errors, progress, completed, invocations, echoed,
          summary, sorted_stats, processed_stats, limit, table, printed,
          rowPos, exitCode, exitMsg, call>>

runVars == <<len_all_paths, CHUNK_SIZE, i, chunk, linePos, stats,
             encountered_errors, progress, completed, invocations, echoed>>

reportVars == <<summary, sorted_stats, processed_stats, limit, table, printed,
                rowPos>>

envVars == <<args, store, du, call>>

\* ------------------------------------------------------------------------
\* The batch loop
\* ------------------------------------------------------------------------

ChunkFloor == 100

ChunkCeiling == 1000

ChunkDivisor == 100

\* ChunkSize without the upper clamp
ChunkSizeNoCeiling(n) == Max(ChunkFloor, n \div ChunkDivisor)

\* CHUNK_SIZE = max(100, min(1000, len(all_paths) // 100))
ChunkSize(n) == Max(ChunkFloor, Min(ChunkCeiling, n \div ChunkDivisor))

\* paths without a stdout line are skipped ScanBlock at a time
ScanBlock == 50

\* glob returns the entries in an arbitrary order: all_paths[pos - 1] is the
\* path of entry EntryAt(pos)
EntryAt(pos) == IF store.order = "fwd" THEN pos ELSE store.n + 1 - pos

\* all_paths[i:i + CHUNK_SIZE] as the positions lo..hi (1-based, inclusive)
Slice(off, size, n) == [lo |-> off + 1, hi |-> Min(off + size, n)]

KindAt(pos) == Outcome(du, EntryAt(pos))

\* result.stderr.splitlines() of the run on slice c, as a set of lines
StderrLines(c) ==
    {StderrLineOf(KindAt(pos), EntryAt(pos)) :
        pos \in {q \in c.lo..c.hi : HasDiag(KindAt(q))}}

StderrCount(c) == Cardinality({q \in c.lo..c.hi : HasDiag(KindAt(q))})

\* the position of the next path after pos that du printed a stdout line for,
\* 0 when result.stdout.splitlines() is exhausted
RECURSIVE NextLine(_, _)
NextLine(pos, hi) ==
    IF pos >= hi THEN 0
    ELSE IF HasLine(KindAt(pos + 1)) THEN pos + 1
    ELSE LET to == Min(pos + ScanBlock, hi)
             S == {q \in (pos + 1)..to : HasLine(KindAt(q))}
         IN  IF S /= {} THEN Least(S) ELSE NextLine(to, hi)

\* index of name in the dict, 0 when it is no key yet
RECURSIVE KeyIndex(_, _, _)
KeyIndex(st, name, k) ==
    IF k > Len(st) THEN 0
    ELSE IF st[k].name = name THEN k
    ELSE KeyIndex(st, name, k + 1)

\* Accumulate with = in place of += on the size
AccumulateAssign(st, pkg_name, size_kb) ==
    LET k == KeyIndex(st, pkg_name, 1)
    IN  IF k = 0
        THEN Append(st, [name |-> pkg_name, size |-> size_kb, count |-> 1])
        ELSE [st EXCEPT ![k] = [name |-> pkg_name, size |-> size_kb,
                                count |-> st[k].count + 1]]

\* stats[pkg_name]["size"] += size_kb; stats[pkg_name]["count"] += 1
\* on a defaultdict whose missing entries start at size 0, count 0
Accumulate(st, pkg_name, size_kb) ==
    LET k == KeyIndex(st, pkg_name, 1)
    IN  IF k = 0
        THEN Append(st, [name |-> pkg_name, size |-> 0 + size_kb, count |-> 0 + 1])
        ELSE [st EXCEPT ![k] = [name |-> pkg_name,
                                size |-> st[k].size + size_kb,
                                count |-> st[k].count + 1]]

\* lines 135-142: <<accepted, size_kb, path>> for one stdout line
ParseLine(line) ==
    LET parts == SplitTab(line)
        num == ParseInt(parts[1])
    IN  IF Len(parts) /= 2 THEN <<FALSE, 0, <<>>>>
        ELSE IF ~num[1] THEN <<FALSE, 0, <<>>>>
        ELSE <<TRUE, num[2], parts[2]>>

\* progress.update(task_id, advance=1), reached only for an aggregated line
Advance(done, accepted) ==
    IF progress = "started" /\ accepted THEN done + 1 ELSE done

\* RecordErrors with the add moved under "if args.verbose"
RecordErrorsIfVerbose(errors, lines, verbose) ==
    IF verbose THEN errors \cup lines ELSE errors

\* encountered_errors.add(line) for every line of result.stderr
RecordErrors(errors, lines, verbose) == errors \cup lines

Exit(code, msg) ==
    /\ pc' = "exit"
    /\ exitCode' = code
    /\ exitMsg' = msg

\* lines 71-74
CheckStore ==
    /\ pc = "start"
    /\ IF store.exists
       THEN pc' = "glob" /\ UNCHANGED <<exitCode, exitMsg>>
       ELSE Exit(1, "no_store")
    /\ UNCHANGED <<envVars, runVars, reportVars>>

\* lines 78-81: the directories under the root
Enumerate ==
    /\ pc = "glob"
    /\ pc' = "setup"
    /\ len_all_paths' = store.n
    /\ UNCHANGED <<envVars, CHUNK_SIZE, i, chunk, linePos, stats,
                   encountered_errors, progress, completed, invocations, echoed,
                   reportVars, exitCode, exitMsg>>

\* lines 82-84: reading the store raises
EnumerateFails ==
    /\ pc = "glob"
    /\ Exit(1, "read_error")
    /\ UNCHANGED <<envVars, runVars, reportVars>>

\* lines 86-110
Setup ==
    /\ pc = "setup"
    /\ pc' = "loop"
    /\ stats' = <<>>
    /\ encountered_errors' = {}
    /\ CHUNK_SIZE' = ChunkSize(len_all_paths)
    /\ progress' = IF args.human_readable THEN "started" ELSE "none"
    /\ completed' = 0
    /\ i' = 0
    /\ UNCHANGED <<envVars, len_all_paths, chunk, linePos, invocations, echoed,
                   reportVars, exitCode, exitMsg>>

\* lines 112-132: the next slice, one run of du on it, its diagnostics
Invoke ==
    /\ pc = "loop"
    /\ i < len_all_paths
    /\ LET c == Slice(i, CHUNK_SIZE, len_all_paths)
       IN  IF c.hi < c.lo
           THEN /\ i' = i + CHUNK_SIZE
                /\ UNCHANGED <<pc, chunk, linePos, invocations,
                               encountered_errors, echoed>>
           ELSE /\ chunk' = c
                /\ invocations' = Append(invocations, c)
                /\ encountered_errors' =
                       RecordErrors(encountered_errors, StderrLines(c), args.verbose)
                /\ echoed' = IF args.verbose THEN echoed + StderrCount(c) ELSE echoed
                /\ linePos' = c.lo - 1
                /\ pc' = "lines"
                /\ UNCHANGED i
    /\ UNCHANGED <<envVars, len_all_paths, CHUNK_SIZE, stats, progress,
                   completed, reportVars, exitCode, exitMsg>>

\* line 123: subprocess.run raises because du cannot be started; nothing
\* catches it
InvokeFails ==
    /\ pc = "loop"
    /\ i < len_all_paths
    /\ Exit(1, "du_failed")
    /\ UNCHANGED <<envVars, runVars, reportVars>>

\* lines 134-154: one line of result.stdout
ReadLine ==
    /\ pc = "lines"
    /\ LET pos == NextLine(linePos, chunk.hi)
       IN  /\ pos /= 0
           /\ linePos' = pos
           /\ LET r == ParseLine(StdoutLineOf(KindAt(pos), EntryAt(pos)))
                  pkg_name == parse_package_name(r[3], args.with_version)
              IN  /\ stats' = IF r[1] THEN Accumulate(stats, pkg_name, r[2])
                              ELSE stats
                  /\ completed' = Advance(completed, r[1])
    /\ UNCHANGED <<envVars, pc, len_all_paths, CHUNK_SIZE, i, chunk,
                   encountered_errors, progress, invocations, echoed,
                   reportVars, exitCode, exitMsg>>

\* the loop over result.stdout is exhausted: the for loop steps by CHUNK_SIZE
EndBatch ==
    /\ pc = "lines"
    /\ NextLine(linePos, chunk.hi) = 0
    /\ i' = i + CHUNK_SIZE
    /\ pc' = "loop"
    /\ UNCHANGED <<envVars, len_all_paths, CHUNK_SIZE, chunk, linePos, stats,
                   encountered_errors, progress, completed, invocations, echoed,
                   reportVars, exitCode, exitMsg>>

\* range(0, len(all_paths), CHUNK_SIZE) is exhausted
LoopEnd ==
    /\ pc = "loop"
    /\ i >= len_all_paths
    /\ pc' = "stop"
    /\ UNCHANGED <<envVars, runVars, reportVars, exitCode, exitMsg>>

\* lines 156-157
StopProgress ==
    /\ pc = "stop"
    /\ progress' = IF progress = "started" THEN "stopped" ELSE progress
    /\ pc' = "summary"
    /\ UNCHANGED <<envVars, len_all_paths, CHUNK_SIZE, i, chunk, linePos, stats,
                   encountered_errors, completed, invocations, echoed,
                   reportVars, exitCode, exitMsg>>


\* ------------------------------------------------------------------------
\* The report
\* ------------------------------------------------------------------------

\* sorted(set of str): the smallest first
RECURSIVE SortedLines(_)
SortedLines(S) ==
    IF S = {} THEN <<>>
    ELSE LET m == CHOOSE x \in S : \A y \in S : ~StrLess(y, x)
         IN  <<m>> \o SortedLines(S \ {m})

\* lines 159-162: the header line carries the number of error types
ErrorSummaryOf(errors) ==
    IF errors = {} THEN [types |-> 0, lines |-> <<>>]
    ELSE [types |-> Cardinality(errors), lines |-> SortedLines(errors)]

\* key_map[args.sort] compared with <
KeyLess(sort, a, b) ==
    CASE sort = "size" -> a.size < b.size
      [] sort = "count" -> a.count < b.count
      [] sort = "name" -> StrLess(a.name, b.name)

\* x goes before y in sorted(..., reverse=reverse)
GoesBefore(sort, reverse, x, y) ==
    IF reverse THEN KeyLess(sort, y, x) ELSE KeyLess(sort, x, y)

\* the stable sort: x is placed before the first item it goes before, so
\* items with equal keys keep their order, also with reverse=True
RECURSIVE InsertSorted(_, _, _, _)
InsertSorted(acc, x, sort, reverse) ==
    IF acc = <<>> THEN <<x>>
    ELSE IF GoesBefore(sort, reverse, x, Head(acc)) THEN <<x>> \o acc
    ELSE <<Head(acc)>> \o InsertSorted(Tail(acc), x, sort, reverse)

RECURSIVE SortFrom(_, _, _, _)
SortFrom(items, acc, sort, reverse) ==
    IF items = <<>> THEN acc
    ELSE SortFrom(Tail(items), InsertSorted(acc, Head(items), sort, reverse),
                  sort, reverse)

\* sorted(stats.items(), key=key_map[args.sort], reverse=args.reverse)
Sorted(st, sort, reverse) == SortFrom(st, <<>>, sort, reverse)

\* sum(item[1]['size'] for item in sorted_stats)
RECURSIVE SumSize(_)
SumSize(rows) == IF rows = <<>> THEN 0 ELSE Head(rows).size + SumSize(Tail(rows))

\* x / total * 100 as the exact fraction; dividing by zero raises
Quotient(x, total) ==
    IF total = 0 THEN [err |-> TRUE, num |-> 0, den |-> 1]
    ELSE [err |-> FALSE, num |-> x * 100, den |-> total]

\* Percent with the guard on the total dropped
PercentUnguarded(x, total_size) == Quotient(x, total_size)

\* (x / total_size * 100) if total_size > 0 else 0
Percent(x, total_size) ==
    IF total_size > 0 THEN Quotient(x, total_size)
    ELSE [err |-> FALSE, num |-> 0, den |-> 1]

\* lines 174-180: rows with their percent and running cumulative percent
RECURSIVE Annotate(_, _, _)
Annotate(rows, cumulative_size, total_size) ==
    IF rows = <<>> THEN <<>>
    ELSE LET data == Head(rows)
             cum == cumulative_size + data.size
         IN  <<[name |-> data.name, size |-> data.size, count |-> data.count,
                perc |-> Percent(data.size, total_size),
                cum_perc |-> Percent(cum, total_size)]>>
             \o Annotate(Tail(rows), cum, total_size)

\* f"{x:.2f}" as a number of hundredths: the nearest, ties to even
Fmt2(r) ==
    LET a == r.num * 100
        q == a \div r.den
        rem == a % r.den
    IN  IF 2 * rem < r.den THEN q
        ELSE IF 2 * rem > r.den THEN q + 1
        ELSE IF q % 2 = 0 THEN q ELSE q + 1

Units == <<"KB", "MB", "GB", "TB">>

UnitStep == 1024

\* get_human_size: the first unit in which the size is below 1024, else PB
RECURSIVE HumanFrom(_, _, _)
HumanFrom(size_in_kb, den, u) ==
    IF u > Len(Units) THEN [value |-> Fmt2([num |-> size_in_kb, den |-> den]),
                            unit |-> "PB"]
    ELSE IF size_in_kb < UnitStep * den
         THEN [value |-> Fmt2([num |-> size_in_kb, den |-> den]), unit |-> Units[u]]
         ELSE HumanFrom(size_in_kb, den * UnitStep, u + 1)

get_human_size(size_in_kb) == HumanFrom(size_in_kb, 1, 1)

StartsWith(s, prefix) ==
    Len(s) >= Len(prefix) /\ Take(s, Len(prefix)) = prefix

\* special_names_re.match(name): ^(source|system-path|nixos($|-.*))
special_names(name) ==
    \/ StartsWith(name, <<"s", "o", "u", "r", "c", "e">>)
    \/ StartsWith(name, <<"s", "y", "s", "t", "e", "m", "-", "p", "a", "t", "h">>)
    \/ name = <<"n", "i", "x", "o", "s">>
    \/ name = <<"n", "i", "x", "o", "s", NL>>
    \/ StartsWith(name, <<"n", "i", "x", "o", "s", "-">>)

\* the heights console.size reports in the runs modelled
Heights == {0, 2, 5}

\* lines 186-191: height is only read when neither --full nor -n is given
Limit(height) ==
    IF args.full THEN Len(sorted_stats)
    ELSE IF args.n /= <<>> THEN args.n[1]
    ELSE (height * 8) \div 10

\* processed_stats[-limit:] if limit > 0 else []
Subset(rows, lim) ==
    IF lim > 0 THEN SubSeq(rows, Max(1, Len(rows) - lim + 1), Len(rows))
    ELSE <<>>

\* lines 208-215 and line 221: what one row shows
TableRow(r) == [name |-> r.name, size |-> get_human_size(r.size),
                count |-> r.count, perc |-> Fmt2(r.perc),
                cum_perc |-> Fmt2(r.cum_perc), special |-> special_names(r.name)]

PlainRow(r) == [name |-> r.name, size |-> r.size, count |-> r.count,
                perc |-> Fmt2(r.perc), cum_perc |-> Fmt2(r.cum_perc)]

\* lines 159-162
ErrorSummary ==
    /\ pc = "summary"
    /\ summary' = ErrorSummaryOf(encountered_errors)
    /\ pc' = "sort"
    /\ UNCHANGED <<envVars, runVars, sorted_stats, processed_stats, limit,
                   table, printed, rowPos, exitCode, exitMsg>>

\* lines 165-170
SortStats ==
    /\ pc = "sort"
    /\ sorted_stats' = Sorted(stats, args.sort, args.reverse)
    /\ pc' = "percent"
    /\ UNCHANGED <<envVars, runVars, summary, processed_stats, limit, table,
                   printed, rowPos, exitCode, exitMsg>>

\* lines 172-180; a ZeroDivisionError is caught nowhere
Percentages ==
    /\ pc = "percent"
    /\ LET rows == Annotate(sorted_stats, 0, SumSize(sorted_stats))
       IN  IF \E k \in 1..Len(rows) : rows[k].perc.err \/ rows[k].cum_perc.err
           THEN Exit(1, "zero_division") /\ UNCHANGED processed_stats
           ELSE /\ processed_stats' = rows
                /\ pc' = "display"
                /\ UNCHANGED <<exitCode, exitMsg>>
    /\ UNCHANGED <<envVars, runVars, summary, sorted_stats, limit, table,
                   printed, rowPos>>

\* lines 183-215: the table and its rows, not yet shown
BuildTable ==
    /\ pc = "display"
    /\ args.human_readable
    /\ \E height \in Heights : limit' = Limit(height)
    /\ table' = [k \in 1..Len(Subset(processed_stats, limit')) |->
                    TableRow(Subset(processed_stats, limit')[k])]
    /\ pc' = "print_table"
    /\ UNCHANGED <<envVars, runVars, summary, sorted_stats, processed_stats,
                   printed, rowPos, exitCode, exitMsg>>

\* line 217, then main() returns
PrintTable ==
    /\ pc = "print_table"
    /\ printed' = table
    /\ Exit(0, "done")
    /\ UNCHANGED <<envVars, runVars, summary, sorted_stats, processed_stats,
                   limit, table, rowPos>>

\* lines 218-221: one row of the plain report
PrintRow ==
    /\ pc = "display"
    /\ ~args.human_readable
    /\ rowPos < Len(processed_stats)
    /\ printed' = Append(printed, PlainRow(processed_stats[rowPos + 1]))
    /\ rowPos' = rowPos + 1
    /\ UNCHANGED <<envVars, runVars, pc, summary, sorted_stats, processed_stats,
                   limit, table, exitCode, exitMsg>>

\* the plain report is complete and main() returns
Return ==
    /\ pc = "display"
    /\ ~args.human_readable
    /\ rowPos = Len(processed_stats)
    /\ Exit(0, "done")
    /\ UNCHANGED <<envVars, runVars, reportVars>>

\* lines 223-228: KeyboardInterrupt raised anywhere in main()
Interrupt ==
    /\ pc \notin {"exit", "call", "returned"}
    /\ Exit(0, "interrupted")
    /\ UNCHANGED <<envVars, runVars, reportVars>>


\* one call of parse_package_name, outside a run of main()
Call ==
    /\ pc = "call"
    /\ call' = [call EXCEPT
                  !.ret = parse_package_name(call.path, call.keep_version)]
    /\ pc' = "returned"
    /\ UNCHANGED <<args, store, du, runVars, reportVars, exitCode, exitMsg>>

\* ------------------------------------------------------------------------
\* Initial states
\* ------------------------------------------------------------------------

NoCall == [path |-> <<>>, keep_version |-> FALSE, ret |-> <<>>]

NoSlice == [lo |-> 1, hi |-> 0]

NoSummary == [types |-> 0, lines |-> <<>>]

\* what main() has not assigned yet
Unassigned ==
    /\ len_all_paths = 0
    /\ CHUNK_SIZE = 0
    /\ i = 0
    /\ chunk = NoSlice
    /\ linePos = 0
    /\ stats = <<>>
    /\ encountered_errors = {}
    /\ progress = "none"
    /\ completed = 0
    /\ invocations = <<>>
    /\ echoed = 0
    /\ summary = NoSummary
    /\ sorted_stats = <<>>
    /\ processed_stats = <<>>
    /\ limit = 0
    /\ table = <<>>
    /\ printed = <<>>
    /\ rowPos = 0
    /\ exitCode = -1
    /\ exitMsg = "running"

Orders == {"fwd", "rev"}

\* store sizes that fit in one batch, and two that need several
SmallStores == (0..MaxSmall) \cup {ChunkFloor + 1, MaxN}

\* store sizes for which len // 100 lies above, inside and beyond [100, 1000]
LargeStores == {10100, 99900, 100100}

\* du on a small store: every entry, or every hundredth, is treated as `hit`
\* (a diagnostic that names its path is kept to every hundredth entry)
DuSmall == [hit : Kinds, every : {ChunkFloor}, rest : {"ok"}]
           \cup [hit : Kinds \ {"diag"}, every : {1}, rest : {"ok"}]

\* du on a large store answers for every thousandth entry only
DuLarge == [hit : {"ok", "diagsame"}, every : {ChunkCeiling}, rest : {"none"}]

DefaultReport == [sort |-> "size", reverse |-> FALSE, n |-> <<>>, full |-> FALSE]

\* the report options of the runs of the whole pipeline: one choice for each
\* choice of --with-version and --verbose
RunReport(wv, vb) ==
    CASE ~wv /\ ~vb -> DefaultReport
      [] wv /\ ~vb -> [sort |-> "name", reverse |-> TRUE, n |-> <<1>>, full |-> FALSE]
      [] ~wv /\ vb -> [sort |-> "count", reverse |-> FALSE, n |-> <<>>, full |-> TRUE]
      [] wv /\ vb -> [sort |-> "size", reverse |-> TRUE, n |-> <<2>>, full |-> FALSE]

ArgsOf(wv, hr, vb, rep) ==
    [with_version |-> wv, human_readable |-> hr, verbose |-> vb,
     sort |-> rep.sort, reverse |-> rep.reverse, n |-> rep.n, full |-> rep.full]

InitSmall ==
    /\ store \in [exists : {TRUE}, n : SmallStores, order : Orders]
    /\ du \in DuSmall
    /\ \E wv \in BOOLEAN, hr \in BOOLEAN, vb \in BOOLEAN :
          args = ArgsOf(wv, hr, vb, RunReport(wv, vb))

InitLarge ==
    /\ store \in [exists : {TRUE}, n : LargeStores, order : {"fwd"}]
    /\ du \in DuLarge
    /\ \E hr \in BOOLEAN :
          args = ArgsOf(FALSE, hr, FALSE, DefaultReport)

InitMissing ==
    /\ store = [exists |-> FALSE, n |-> 0, order |-> "fwd"]
    /\ du = [hit |-> "ok", every |-> 1, rest |-> "ok"]
    /\ args = ArgsOf(FALSE, FALSE, FALSE, DefaultReport)

\* main() is entered: the arguments are parsed, nothing is assigned yet
Init ==
    /\ pc = "start"
    /\ call = NoCall
    /\ Unassigned
    /\ (InitSmall \/ InitLarge \/ InitMissing)

Next ==
    \/ CheckStore
    \/ Enumerate
    \/ EnumerateFails
    \/ Setup
    \/ Invoke
    \/ InvokeFails
    \/ ReadLine
    \/ EndBatch
    \/ LoopEnd
    \/ StopProgress
    \/ ErrorSummary
    \/ SortStats
    \/ Percentages
    \/ BuildTable
    \/ PrintTable
    \/ PrintRow
    \/ Return
    \/ Interrupt

Spec == Init /\ [][Next]_vars


\* ------------------------------------------------------------------------
\* parse_package_name on its own: the names it is called with
\* ------------------------------------------------------------------------

MaxTail == 6

TailChars == {"a", "3", "-"}

Tails == UNION {[1..k -> TailChars] : k \in 0..MaxTail}

ExampleTails ==
    {<<"-", "g", "o", "-", "1", ".", "2", "5", ".", "4">>,
     <<"-", "p", "y", "t", "h", "o", "n", "3", "-", "3", ".", "9">>,
     <<"-", "f", "o", "o", "-", "1", ".", "0", "-", "b", "a", "r", "-", "2">>,
     <<"-", "l", "i", "b", "3", "-", "1", ".", "0", "-", "r", "c", "-", "2">>,
     <<"-", "s", "o", "u", "r", "c", "e">>}

\* what a name starts with: nothing, a hash, a hash with a digit, a hash one
\* character short, a hash with a capital in it
Heads ==
    {<<>>,
     Rep("a", HashLen),
     Rep("b", HashLen - 1) \o <<"7">>,
     Rep("a", HashLen - 1),
     Rep("a", HashLen - 1) \o <<"A">>}

Dirs == {<<>>, StorePath \o <<"/">>}

InitName ==
    /\ pc = "call"
    /\ Unassigned
    /\ store = [exists |-> TRUE, n |-> 0, order |-> "fwd"]
    /\ du = [hit |-> "ok", every |-> 1, rest |-> "ok"]
    /\ args = ArgsOf(FALSE, FALSE, FALSE, DefaultReport)
    /\ \E d \in Dirs, h \in Heads, t \in Tails \cup ExampleTails, kv \in BOOLEAN :
          call = [path |-> d \o h \o t, keep_version |-> kv, ret |-> <<>>]

NextName == Call

SpecName == InitName /\ [][NextName]_vars

\* ------------------------------------------------------------------------
\* The report on its own: main() at line 164 with a bounded dictionary
\* ------------------------------------------------------------------------

MaxRows == 3

NamePool ==
    << <<"g", "o">>,
       <<"n", "i", "x", "o", "s">>,
       <<"p", "y", "t", "h", "o", "n", "3">>,
       <<"s", "o", "u", "r", "c", "e">>,
       <<"z", "l", "i", "b">>,
       <<"a", "c", "l">> >>

Measures ==
    {[size |-> 0, count |-> 1], [size |-> 1, count |-> 1],
     [size |-> 1, count |-> 2], [size |-> 3, count |-> 1]}

\* dictionaries of up to MaxRows names, inserted in pool order or against it
StatsChoices ==
    UNION {{[j \in 1..k |->
                [name |-> IF fwd THEN NamePool[j] ELSE NamePool[k + 1 - j],
                 size |-> m[j].size, count |-> m[j].count]] :
            m \in [1..k -> Measures], fwd \in BOOLEAN} : k \in 0..MaxRows}

RECURSIVE SumCount(_)
SumCount(rows) ==
    IF rows = <<>> THEN 0 ELSE Head(rows).count + SumCount(Tail(rows))

\* -n absent, or -n k for k around the number of rows
LimitChoices == {<<>>} \cup {<<k>> : k \in (0 - 1)..(MaxRows + 1)}

ReportChoices ==
    {ArgsOf(FALSE, FALSE, FALSE, [sort |-> so, reverse |-> rv, n |-> <<>>,
                                  full |-> FALSE]) :
        so \in {"size", "count", "name"}, rv \in BOOLEAN}
    \cup {ArgsOf(FALSE, TRUE, FALSE, [sort |-> so, reverse |-> rv, n |-> <<>>,
                                      full |-> TRUE]) :
        so \in {"size", "count", "name"}, rv \in BOOLEAN}
    \cup {ArgsOf(FALSE, TRUE, FALSE, [sort |-> so, reverse |-> rv, n |-> nn,
                                      full |-> FALSE]) :
        so \in {"size", "count", "name"}, rv \in BOOLEAN, nn \in LimitChoices}

\* the state at line 164 of a run that measured SumCount(stats) entries in
\* one batch without a diagnostic
InitReport ==
    /\ pc = "sort"
    /\ call = NoCall
    /\ stats \in StatsChoices
    /\ args \in ReportChoices
    /\ store = [exists |-> TRUE, n |-> SumCount(stats), order |-> "fwd"]
    /\ du = [hit |-> "ok", every |-> 1, rest |-> "ok"]
    /\ len_all_paths = store.n
    /\ CHUNK_SIZE = ChunkSize(len_all_paths)
    /\ i = IF len_all_paths = 0 THEN 0 ELSE CHUNK_SIZE
    /\ chunk = Slice(0, CHUNK_SIZE, len_all_paths)
    /\ linePos = chunk.hi
    /\ invocations = IF len_all_paths = 0 THEN <<>> ELSE <<chunk>>
    /\ encountered_errors = {}
    /\ progress = IF args.human_readable THEN "stopped" ELSE "none"
    /\ completed = IF args.human_readable THEN len_all_paths ELSE 0
    /\ echoed = 0
    /\ summary = NoSummary
    /\ sorted_stats = <<>>
    /\ processed_stats = <<>>
    /\ limit = 0
    /\ table = <<>>
    /\ printed = <<>>
    /\ rowPos = 0
    /\ exitCode = -1
    /\ exitMsg = "running"

NextReport ==
    \/ SortStats
    \/ Percentages
    \/ BuildTable
    \/ PrintTable
    \/ PrintRow
    \/ Return
    \/ Interrupt

SpecReport == InitReport /\ [][NextReport]_vars


\* ------------------------------------------------------------------------
\* Properties of parse_package_name (checked under SpecName)
\* ------------------------------------------------------------------------

Returned == pc = "returned"

\* the name is 32 characters of [a-z0-9], a dash, and a remainder
Hashed(b) ==
    /\ Len(b) > HashLen
    /\ \A j \in 1..HashLen : b[j] \in Lower \cup Digits
    /\ b[HashLen + 1] = "-"

Remainder(b) == SubSeq(b, HashLen + 2, Len(b))

\* the positions of a dash that a digit follows
Boundaries(w) ==
    {j \in 1..(Len(w) - 1) : w[j] = "-" /\ w[j + 1] \in Digits}

UpToFirstBoundary(w) ==
    IF Boundaries(w) = {} THEN w
    ELSE SubSeq(w, 1, Least(Boundaries(w)) - 1)

CalledName == basename(call.path)

OtherHash == Rep("z", HashLen)

\* C7: a hashed name gets the identity of its remainder (the remainder itself
\* with keepVersion true), whatever the hash is; any other name is its own
\* identity, for either keepVersion value.
C7_HashStripped ==
    Returned =>
        IF Hashed(CalledName)
        THEN /\ call.keep_version => call.ret = Remainder(CalledName)
             /\ call.ret = parse_package_name(
                    OtherHash \o <<"-">> \o Remainder(CalledName),
                    call.keep_version)
             /\ \A k \in 1..Len(call.ret) :
                   call.ret[k] = Remainder(CalledName)[k]
        ELSE call.ret = CalledName

\* C7 witness: a hashed name below a directory returned its remainder.
C7_Witness ==
    /\ Returned
    /\ call.keep_version
    /\ Hashed(CalledName)
    /\ CalledName /= call.path
    /\ call.ret = Remainder(CalledName)
    /\ Len(call.ret) >= 3

\* ------------------------------------------------------------------------
\* Properties of the report (checked under SpecReport)
\* ------------------------------------------------------------------------

\* processed_stats has been computed and main() was not interrupted
Reported ==
    \/ pc \in {"display", "print_table"}
    \/ (pc = "exit" /\ exitMsg = "done")

KeyOf(r) ==
    CASE args.sort = "size" -> r.size
      [] args.sort = "count" -> r.count
      [] args.sort = "name" -> r.name

\* a's value of the active key is less significant than b's
LessSignificant(a, b) ==
    IF args.sort = "name" THEN StrLess(a.name, b.name)
    ELSE KeyOf(a) < KeyOf(b)

Shown == {table[k].name : k \in 1..Len(table)}

RowOf(name) ==
    CHOOSE r \in {processed_stats[k] : k \in 1..Len(processed_stats)} :
        r.name = name

\* C3: with a display limit N the table shows min(max(N, 0), rows) rows, no
\* hidden row has a more significant value of the active key than a shown
\* row, for every sort key and both values of --reverse, and every shown row
\* carries the percentages computed over the full sorted list.
C3_MostSignificantShown ==
    (pc = "print_table" /\ ~args.full) =>
        /\ Len(table) = Min(Max(limit, 0), Len(processed_stats))
        /\ Cardinality(Shown) = Len(table)
        /\ \A k \in 1..Len(processed_stats) :
              processed_stats[k].name \notin Shown
                  => \A j \in 1..Len(table) :
                        ~LessSignificant(RowOf(table[j].name), processed_stats[k])
        /\ \A j \in 1..Len(table) :
              /\ table[j].perc = Fmt2(RowOf(table[j].name).perc)
              /\ table[j].cum_perc = Fmt2(RowOf(table[j].name).cum_perc)

ExactSum(rows, f(_)) ==
    LET RECURSIVE Go(_)
        Go(k) == IF k = 0 THEN 0 ELSE f(rows[k]) + Go(k - 1)
    IN  Go(Len(rows))

PercNum(r) == r.perc.num

SizeField(r) == r.size

Hundred == [err |-> FALSE, num |-> 100, den |-> 1]

\* C9: in the report, for every sort key and direction, a total size of 0
\* gives percent 0 and cumulative percent 0 in every row and no division by
\* zero; a total size above 0 gives the last row of the full sorted order the
\* whole total as cumulative size, shown as 100.00, and row sizes, hence
\* percents, that add up to the whole; an empty store gives an empty report
\* and exit status 0.
C9_Percentages ==
    /\ exitMsg /= "zero_division"
    /\ Reported =>
          LET total == ExactSum(stats, SizeField)
              rows == processed_stats
          IN  /\ Len(rows) = Len(stats)
              /\ total = 0 =>
                    \A k \in 1..Len(rows) :
                        /\ rows[k].perc.num = 0 /\ Fmt2(rows[k].perc) = 0
                        /\ rows[k].cum_perc.num = 0 /\ Fmt2(rows[k].cum_perc) = 0
              /\ total > 0 =>
                    /\ rows[Len(rows)].cum_perc.num = 100 * total
                    /\ rows[Len(rows)].cum_perc.den = total
                    /\ Fmt2(rows[Len(rows)].cum_perc) = Fmt2(Hundred)
                    /\ ExactSum(rows, SizeField) = total
                    /\ \A k \in 1..Len(rows) : rows[k].perc.den = total
                    /\ ExactSum(rows, PercNum) = 100 * total
    /\ (pc = "exit" /\ exitMsg = "done" /\ stats = <<>>) =>
          exitCode = 0 /\ printed = <<>>

\* C9 witness: a report of several rows whose total is 0 was printed.
C9_Witness ==
    /\ pc = "exit"
    /\ exitMsg = "done"
    /\ Len(processed_stats) >= 2
    /\ ExactSum(stats, SizeField) = 0
    /\ Len(printed) = Len(processed_stats)

\* ------------------------------------------------------------------------
\* Properties of a whole run (checked under Spec)
\* ------------------------------------------------------------------------

\* the batch loop has ended and main() was not interrupted
AfterLoop ==
    \/ pc \in {"stop", "summary", "sort", "percent", "display", "print_table"}
    \/ (pc = "exit" /\ exitMsg = "done")

\* C1: once all batches are processed the progress display has been advanced
\* once per enumerated path, also for paths without a usable output line.
C1_TickPerPath ==
    (AfterLoop /\ args.human_readable) => completed = len_all_paths

\* a line of exactly two fields whose first is an unsigned decimal number
WellFormed(line) ==
    LET parts == SplitTab(line)
    IN  /\ Len(parts) = 2
        /\ parts[1] /= <<>>
        /\ \A j \in 1..Len(parts[1]) : parts[1][j] \in Digits

LineAt(pos) == StdoutLineOf(KindAt(pos), EntryAt(pos))

\* C2: a line is aggregated only if it has exactly two fields and a
\* non-negative integer first; so every total is >= 0 and never decreases from
\* one accumulate step to the next, and every count is positive.
C2_NonNegativeOnly ==
    [][(pc = "lines" /\ linePos' /= linePos) =>
          /\ ~WellFormed(LineAt(linePos')) => stats' = stats
          /\ \A k \in 1..Len(stats') :
                stats'[k].size >= 0 /\ stats'[k].count >= 1
          /\ \A k \in 1..Len(stats) : stats'[k].size >= stats[k].size]_vars

\* C4: after a user interrupt the process has exit status 0, no progress
\* display is left running and no report row has been written.
C4_InterruptClean ==
    (pc = "exit" /\ exitMsg = "interrupted") =>
        /\ exitCode = 0
        /\ progress /= "started"
        /\ printed = <<>>

\* the identity the store's construction gives entry e
ExpectedId(e) ==
    IF Stray(e) THEN EntryName(e)
    ELSE IF args.with_version THEN NameOf(e)
    ELSE IF e % 3 = 0 THEN <<"p", "y", "t", "h", "o", "n", "3">>
    ELSE <<"g", "o">>

SizeValues == {500, 300, 7, 0}

SumOf(S, f(_)) ==
    LET RECURSIVE Go(_)
        Go(V) == IF V = {} THEN 0
                 ELSE LET v == CHOOSE x \in V : TRUE
                      IN  v * Cardinality({e \in S : f(e) = v}) + Go(V \ {v})
    IN  Go(SizeValues)

\* du prints a diagnostic for some paths and a valid line for every other
DiagnosticRun == du.hit \in {"diag", "diagsame"} /\ du.rest = "ok"

Measured == {e \in 1..store.n : Outcome(du, e) = "ok"}

Diagnosed == {e \in 1..store.n : HasDiag(Outcome(du, e))}

DiagTexts == {StderrLineOf(Outcome(du, e), e) : e \in Diagnosed}

BatchesOf(n, size) == (n + size - 1) \div size

\* C5: when du prints a diagnostic for some paths and valid lines for the
\* others, every batch is still run and the report is reached, the diagnosed
\* paths add to no size and no count, and every diagnostic text is in the
\* error set, and in the printed summary exactly once, verbose or not.
C5_DiagnosticsTolerated ==
    DiagnosticRun =>
        /\ (pc = "exit" /\ encountered_errors /= {}) =>
              exitMsg \in {"done", "interrupted", "du_failed"}
        /\ AfterLoop =>
              /\ Len(invocations) = BatchesOf(store.n, CHUNK_SIZE)
              /\ encountered_errors = DiagTexts
              /\ {ExpectedId(e) : e \in Measured}
                    = {stats[k].name : k \in 1..Len(stats)}
              /\ \A k \in 1..Len(stats) :
                    LET mine == {e \in Measured : ExpectedId(e) = stats[k].name}
                    IN  /\ stats[k].count = Cardinality(mine)
                        /\ stats[k].size = SumOf(mine, EntrySize)
        /\ (AfterLoop /\ pc \notin {"stop", "summary"}) =>
              /\ summary.types = Cardinality(DiagTexts)
              /\ Len(summary.lines) = Cardinality(DiagTexts)
              /\ \A t \in DiagTexts :
                    Cardinality({k \in 1..Len(summary.lines) :
                                    summary.lines[k] = t}) = 1

\* C5 witness: a run without --verbose ended normally after three batches
\* that each repeated the same diagnostic.
C5_Witness ==
    /\ pc = "exit"
    /\ exitMsg = "done"
    /\ ~args.verbose
    /\ du.hit = "diagsame"
    /\ Len(invocations) = 3
    /\ Cardinality(Diagnosed) = 3
    /\ summary.lines = <<StderrLineOf("diagsame", 1)>>
    /\ stats /= <<>>

AsMap(st) == {<<st[k].name, st[k].size, st[k].count>> : k \in 1..Len(st)}

\* the accepted measurements of entries lo..hi accumulated in entry order, as
\* one batch
RECURSIVE InEntryOrder(_, _, _)
InEntryOrder(st, lo, hi) ==
    IF lo > hi THEN st
    ELSE IF lo = hi
         THEN IF HasLine(Outcome(du, lo))
              THEN LET r == ParseLine(StdoutLineOf(Outcome(du, lo), lo))
                   IN  IF r[1]
                       THEN Accumulate(st,
                                parse_package_name(r[3], args.with_version), r[2])
                       ELSE st
              ELSE st
         ELSE LET mid == (lo + hi) \div 2
                  left == InEntryOrder(st, lo, mid)
              IN  IF Len(left) >= 0 THEN InEntryOrder(left, mid + 1, hi) ELSE left

\* C8: the map from identity to (size, count) that the batch loop ends with
\* is the one the same measurements give when accumulated in entry order in
\* one pass, whatever order glob listed them in and however they were split
\* into batches; two versions of go under two hashes make one identity go
\* with the sum of the sizes and count 2.
C8_OrderIndependent ==
    pc = "stop" =>
        /\ AsMap(stats) = AsMap(InEntryOrder(<<>>, 1, store.n))
        /\ Cardinality(AsMap(stats)) = Len(stats)
        /\ (store.n = 2 /\ ~args.with_version /\ du.hit = "ok" /\ du.rest = "ok")
              => stats \in {<<[name |-> <<"g", "o">>, size |-> 800, count |-> 2]>>}

\* C8 witness: the loop ended on a store listed in reverse and split into
\* three batches, with an identity that sums more than one entry.
C8_Witness ==
    /\ pc = "stop"
    /\ store.order = "rev"
    /\ Len(invocations) = 3
    /\ \E k \in 1..Len(stats) : stats[k].count > 1 /\ stats[k].size > 500
    /\ stats /= InEntryOrder(<<>>, 1, store.n)

\* CHUNK_SIZE has been assigned
Looping == pc \in {"loop", "lines"} \/ AfterLoop

\* C10: the batch size is n / 100 clamped into [100, 1000]; the batches are
\* non-empty consecutive slices of at most that size which, once the loop has
\* ended, cover every path exactly once in ceil(n / size) invocations; a batch
\* is invoked only when the lines of the one before are used up.
C10_Batches ==
    Looping =>
        LET n == len_all_paths
            q == n \div 100
        IN  /\ n = store.n
            /\ q < 100 => CHUNK_SIZE = 100
            /\ q > 1000 => CHUNK_SIZE = 1000
            /\ (q >= 100 /\ q <= 1000) => CHUNK_SIZE = q
            /\ \A k \in 1..Len(invocations) :
                  /\ invocations[k].lo <= invocations[k].hi
                  /\ invocations[k].hi - invocations[k].lo + 1 <= CHUNK_SIZE
                  /\ invocations[k].lo =
                        (IF k = 1 THEN 1 ELSE invocations[k - 1].hi + 1)
                  /\ invocations[k].hi <= n
            /\ AfterLoop =>
                  /\ Len(invocations) * CHUNK_SIZE >= n
                  /\ (Len(invocations) - 1) * CHUNK_SIZE < n \/ n = 0
                  /\ n = 0 => invocations = <<>>
                  /\ n > 0 => invocations[Len(invocations)].hi = n
            /\ (pc = "loop" /\ invocations /= <<>>) =>
                  /\ chunk = invocations[Len(invocations)]
                  /\ i = chunk.lo - 1 + CHUNK_SIZE
                  /\ \A q2 \in (linePos + 1)..chunk.hi : ~HasLine(KindAt(q2))

\* C10 witness: a store large enough for the upper clamp was processed in
\* 101 batches of at most 1000 paths.
C10_Witness ==
    /\ pc = "stop"
    /\ len_all_paths \div 100 > 1000
    /\ CHUNK_SIZE = 1000
    /\ Len(invocations) = 101
    /\ stats /= <<>>

====
